---------------------------- MODULE Spec2Model ----------------------------
(***************************************************************************)
(* Model of the indexing and retrieval pipeline of the RAG chatbot:        *)
(*   - DocumentProcessor.chunk_text          (src/src/document_processor.py) *)
(*   - VectorStore.get_embeddings_batch,                                    *)
(*     VectorStore.add_documents, reset_collection (src/src/vector_store.py) *)
(*   - VectorStore.search, get_collection_count     (src/src/vector_store.py) *)
(*   - RAGEngine.retrieve_relevant_documents, _build_context,               *)
(*     generate_answer, query                        (src/src/rag_engine.py) *)
(*   - RAGChatbot.index_documents, chat, get_stats  (src/src/chatbot.py)    *)
(*   - the reset button of the sidebar                  (src/src/app.py)    *)
(*                                                                         *)
(* Seven specifications share the module's variables:                      *)
(*   SpecChunk : one call of chunk_text, one loop iteration per step       *)
(*   SpecEmbed : one call of get_embeddings_batch, one group per step      *)
(*   SpecStore : a VectorStore under add_documents, reset_collection and   *)
(*               get_collection_count                                      *)
(*   SpecQuery : retrieval and answering over a collection that was filled *)
(*   SpecApp   : the sidebar buttons of two browser sessions               *)
(*   SpecAll   : every operation that reads or writes the collection       *)
(*   Spec      : a RAGChatbot under index_documents, a reset of the        *)
(*               database and changes of the files in documents_dir        *)
(***************************************************************************)
EXTENDS Integers, Sequences, FiniteSets, TLC

(***************************************************************************)
(* Bounds of the model.                                                    *)
(***************************************************************************)
MaxLen == 6
MaxSize == 5
MaxOverlap == 3
MaxIter == 14
MaxTexts == 4
MaxBatch == 3
MaxDocs == 2
MaxChunks == 1
MaxImages == 1

Min(a, b) == IF a < b THEN a ELSE b
Max(a, b) == IF a > b THEN a ELSE b

(***************************************************************************)
(* Characters.  A text is a sequence of one-character strings; positions   *)
(* in the definitions below are Python's, counted from 0.                  *)
(***************************************************************************)
NL == "\n"
SP == " "
DOT == "."
LETTER == "a"
\* the ideographic full stop U+3002, the exclamation mark and the question mark
IDEOSTOP == "U+3002"
BANG == "!"
QMARK == "?"
\* The characters the bounded texts are made of: a letter, a line break (which
\* makes the delimiters "\n\n" and "\n") and a space (stripped like the line break).
Alphabet == {LETTER, NL, SP}
Whitespace == {NL, SP}

Texts == UNION {[1..n -> Alphabet] : n \in 0..MaxLen}

\* document_processor.py:101, in the order the loop tries them
Delimiters == << <<NL, NL>>, <<NL>>, <<DOT, SP>>, <<IDEOSTOP>>, <<BANG, SP>>, <<QMARK, SP>> >>

(***************************************************************************)
(* Python slice semantics: an index below 0 counts from the end and is     *)
(* clamped at 0, an index beyond the length is clamped at the length.      *)
(***************************************************************************)
SliceIndex(i, n) == IF i < 0 THEN Max(i + n, 0) ELSE Min(i, n)

\* t[lo:hi]
Slice(t, lo, hi) ==
    LET a == SliceIndex(lo, Len(t))
        b == SliceIndex(hi, Len(t))
    IN  IF a >= b THEN << >> ELSE SubSeq(t, a + 1, b)

\* t.rfind(d, lo, hi): the highest position of d inside t[lo:hi], or -1
RFind(t, d, lo, hi) ==
    LET a == SliceIndex(lo, Len(t))
        b == SliceIndex(hi, Len(t))
        hits == {p \in a..(b - Len(d)) : SubSeq(t, p + 1, p + Len(d)) = d}
    IN  IF hits = {} THEN -1 ELSE CHOOSE p \in hits : \A q \in hits : q <= p

\* t.strip()
RECURSIVE LStrip(_)
LStrip(t) == IF t # << >> /\ Head(t) \in Whitespace THEN LStrip(Tail(t)) ELSE t
RECURSIVE RStrip(_)
RStrip(t) ==
    IF t # << >> /\ t[Len(t)] \in Whitespace THEN RStrip(SubSeq(t, 1, Len(t) - 1)) ELSE t
Strip(t) == RStrip(LStrip(t))

(***************************************************************************)
(* chunk_text, lines 96-105: the end of the window that starts at s.       *)
(***************************************************************************)
RECURSIVE DelimiterEnd(_, _, _, _)
DelimiterEnd(t, s, e, k) ==
    IF k > Len(Delimiters) THEN e
    ELSE LET pos == RFind(t, Delimiters[k], s, e)
         IN  IF pos # -1 THEN pos + Len(Delimiters[k])
             ELSE DelimiterEnd(t, s, e, k + 1)

WindowEnd(t, s, size) ==
    LET e == s + size
    IN  IF e < Len(t) THEN DelimiterEnd(t, s, e, 1) ELSE e

\* chunk_text, line 112: the start of the next window
NextStart(t, e, overlap) == IF e < Len(t) THEN e - overlap ELSE e

(***************************************************************************)
(* The embedding provider.  A text of the store is one of TextPool; the    *)
(* provider returns, for a list of texts, one vector per text in the order *)
(* of the list (vector_store.py:104-108).  The vector of a text is a       *)
(* non-empty sequence; the empty sequence is what the store uses for "no    *)
(* embedding" (vector_store.py:113).                                       *)
(***************************************************************************)
TextPool == {"t1", "t2"}
Embedding(t) == <<"vec", t>>
Sentinel == << >>

\* vector_store.py:108: [item.embedding for item in response.data]
EmbeddedGroup(batch) == [k \in 1..Len(batch) |-> Embedding(batch[k])]

\* FailedGroup with one empty vector for the whole group
FailedGroup_OnePerGroup(batch) == <<Sentinel>>

\* vector_store.py:113: [[] for _ in batch]
FailedGroup(batch) == [k \in 1..Len(batch) |-> Sentinel]

\* vector_store.py:102: texts[i:i + batch_size]
Batch(seq, i, batch_size) == Slice(seq, i, i + batch_size)

\* EmbedGroup with an except branch that also blanks the vectors built so far
EmbedGroup_BlanksEarlier(embs, batch, ok) ==
    IF ok THEN embs \o EmbeddedGroup(batch)
    ELSE [k \in 1..(Len(embs) + Len(batch)) |-> Sentinel]

\* vector_store.py:102-113: the body of the loop for the group that starts at i;
\* ok tells whether the provider call of the group returned
EmbedGroup(embs, batch, ok) ==
    IF ok THEN embs \o EmbeddedGroup(batch) ELSE embs \o FailedGroup(batch)

\* vector_store.py:99-115: get_embeddings_batch, where failed is the set of the
\* loop indices i whose provider call raises
RECURSIVE EmbedFrom(_, _, _, _, _)
EmbedFrom(embs, texts, i, batch_size, failed) ==
    IF i >= Len(texts) THEN embs
    ELSE EmbedFrom(EmbedGroup(embs, Batch(texts, i, batch_size), i \notin failed),
                   texts, i + batch_size, batch_size, failed)

GetEmbeddingsBatch(texts, batch_size, failed) == EmbedFrom(<< >>, texts, 0, batch_size, failed)

\* range(0, n, batch_size)
GroupStarts(n, batch_size) == {i \in 0..(n - 1) : i % batch_size = 0}

VARIABLES
    \* DocumentProcessor and one call of chunk_text
    chunk_size, chunk_overlap, text, start, chunks, windows, visited, cpc,
    \* one call of get_embeddings_batch: its arguments, the loop index, the list
    \* built so far, the loop indices whose provider call raised
    e_texts, e_batch_size, e_i, embeddings, e_failed, epc,
    \* VectorStore: the items of the collection, by id
    collection,
    \* whether the installed index library rejects an empty embedding
    index_validates,
    \* the last call on the store: its kind, the documents it was given, the
    \* embeddings it computed, whether its write loop ran to its end
    last,
    \* RAGChatbot: the files of documents_dir, the OCR processor, and the
    \* result of the last index_documents
    directory, ocr_processor, run,
    \* what the last read-only call returned, if one was made since the last
    \* call that writes
    reply,
    \* app.py: st.session_state['confirm_reset'] of each browser session, and
    \* per session the clicks of the reset button and the calls of
    \* reset_database made so far
    confirm_reset, reset_clicks, reset_calls

chunkVars == <<chunk_size, chunk_overlap, text, start, chunks, windows, visited, cpc>>
embedVars == <<e_texts, e_batch_size, e_i, embeddings, e_failed, epc>>

storeVars == <<collection, index_validates, last>>
botVars == <<directory, ocr_processor, run>>
appVars == <<confirm_reset, reset_clicks, reset_calls>>

vars == <<chunkVars, embedVars, storeVars, botVars, reply, appVars>>
otherThanChunk == <<embedVars, storeVars, botVars, reply, appVars>>
otherThanEmbed == <<chunkVars, storeVars, botVars, reply, appVars>>
otherThanStore == <<chunkVars, embedVars, appVars>>

(***************************************************************************)
(* The collection of the vector index.  An item is stored under its id     *)
(* with its text, metadata and embedding.                                  *)
(***************************************************************************)
EmptyCollection == << >>

\* after_reset: the call was made on a collection that a reset had just emptied
\* and that get_collection_count had reported as empty
NoCall == [op |-> "none", documents |-> << >>, embeddings |-> << >>, completed |-> FALSE,
           after_reset |-> FALSE]

\* no read-only call since the last call that writes
NoReply == [op |-> "none"]

\* the browser sessions of the app
Sessions == {"s1", "s2"}

\* a file that is not in documents_dir
NoFile == [present |-> FALSE, readable |-> FALSE, chunks |-> << >>, images |-> 0]

\* count_before: the number of items stored when the run began; ocr_invoked:
\* whether the run went into the OCR stage
NoRun == [status |-> "none", total_docs |-> 0, total_chunks |-> 0, total_images |-> 0,
          ocr_texts |-> 0, enable_ocr |-> FALSE, embed_failures |-> FALSE, again |-> FALSE,
          count_before |-> 0, ocr_invoked |-> FALSE]

\* vector_store.py:35-59 and chatbot.py:41-44: a new collection, no OCR processor
StoreIdle ==
    /\ collection = EmptyCollection
    /\ last = NoCall
    /\ directory = [f \in {<<"a", ".docx">>, <<"b", ".docx">>, <<"~$", "a", ".docx">>} |-> NoFile]
    /\ ocr_processor = "none"
    /\ run = NoRun
    /\ reply = NoReply
    /\ confirm_reset = [s \in Sessions |-> FALSE]
    /\ reset_clicks = [s \in Sessions |-> 0]
    /\ reset_calls = [s \in Sessions |-> 0]

\* the component is constructed and no call is under way
ChunkIdle ==
    /\ chunk_size = 500
    /\ chunk_overlap = 100
    /\ text = << >>
    /\ start = 0
    /\ chunks = << >>
    /\ windows = << >>
    /\ visited = {}
    /\ cpc = "idle"

EmbedIdle ==
    /\ e_texts = << >>
    /\ e_batch_size = 100
    /\ e_i = 0
    /\ embeddings = << >>
    /\ e_failed = {}
    /\ epc = "idle"

(***************************************************************************)
(* DocumentProcessor.__init__ stores the two parameters as given.          *)
(***************************************************************************)
ChunkInit ==
    /\ chunk_size \in 1..MaxSize
    /\ chunk_overlap \in 0..MaxOverlap
    /\ text = << >>
    /\ start = 0
    /\ chunks = << >>
    /\ windows = << >>
    /\ visited = {}
    /\ cpc = "idle"
    /\ EmbedIdle
    /\ StoreIdle
    /\ index_validates = TRUE

\* chunk_text, lines 88-93
ChunkTextCall(t) ==
    /\ cpc = "idle"
    /\ text' = t
    /\ start' = 0
    /\ chunks' = << >>
    /\ windows' = << >>
    /\ visited' = {}
    /\ cpc' = IF t = << >> THEN "done" ELSE "loop"
    /\ UNCHANGED <<chunk_size, chunk_overlap>>
    /\ UNCHANGED otherThanChunk

\* chunk_text, lines 95-112: one iteration of the while loop
ChunkTextStep ==
    /\ cpc = "loop"
    /\ start < Len(text)
    /\ start \notin visited
    /\ Cardinality(visited) < MaxIter
    /\ LET end == WindowEnd(text, start, chunk_size)
           chunk == Strip(Slice(text, start, end))
       IN  /\ chunks' = IF chunk # << >> THEN Append(chunks, chunk) ELSE chunks
           /\ windows' = Append(windows, <<start, end>>)
           /\ start' = NextStart(text, end, chunk_overlap)
    /\ visited' = visited \cup {start}
    /\ UNCHANGED <<chunk_size, chunk_overlap, text, cpc>>
    /\ UNCHANGED otherThanChunk

(***************************************************************************)
(* The next cursor is a function of the text and the cursor alone, so a    *)
(* loop that comes back to a cursor it has been at repeats for ever.  The  *)
(* model stops such a run there, at "diverged".                            *)
(***************************************************************************)
ChunkTextDiverge ==
    /\ cpc = "loop"
    /\ start < Len(text)
    /\ start \in visited
    /\ cpc' = "diverged"
    /\ UNCHANGED <<chunk_size, chunk_overlap, text, start, chunks, windows, visited>>
    /\ UNCHANGED otherThanChunk

\* chunk_text, lines 95 and 114: the loop condition fails, chunks is returned
ChunkTextReturn ==
    /\ cpc = "loop"
    /\ start >= Len(text)
    /\ cpc' = "done"
    /\ UNCHANGED <<chunk_size, chunk_overlap, text, start, chunks, windows, visited>>
    /\ UNCHANGED otherThanChunk

ChunkNext ==
    \/ \E t \in Texts : ChunkTextCall(t)
    \/ ChunkTextStep
    \/ ChunkTextDiverge
    \/ ChunkTextReturn

SpecChunk == ChunkInit /\ [][ChunkNext]_vars

(***************************************************************************)
(* Claims about chunk_text.                                                *)
(***************************************************************************)
\* the characters of window w = <<start, end>>: the positions of text[start:end]
WindowPositions(w) ==
    {p \in 0..(Len(text) - 1) :
        /\ SliceIndex(w[1], Len(text)) <= p
        /\ p < SliceIndex(w[2], Len(text))}

\* C1: chunk_text terminates for every text whenever 0 <= chunk_overlap <
\* chunk_size: the loop never comes back to a window start it has already
\* been at (from where it would repeat for ever).
C1_ChunkTextTerminates ==
    (0 <= chunk_overlap /\ chunk_overlap < chunk_size) => cpc # "diverged"

\* C2: for 0 < chunk_overlap < chunk_size the window start cursor strictly
\* increases from one loop iteration to the next, and is never negative.
C2_StartStrictlyIncreasing ==
    [][(0 < chunk_overlap /\ chunk_overlap < chunk_size /\ cpc = "loop" /\ cpc' = "loop")
         => (start' > start /\ start' >= 0)]_vars

\* C3: for 0 < chunk_overlap < chunk_size the windows of a finished call cover
\* the text without gaps: every non-whitespace position lies in a window, each
\* window begins at or before the end of the window before it, and the last
\* window ends at the end of the text.
C3_WindowsCoverText ==
    (0 < chunk_overlap /\ chunk_overlap < chunk_size /\ cpc = "done" /\ text # << >>) =>
        /\ \A p \in 0..(Len(text) - 1) :
              text[p + 1] \notin Whitespace => \E k \in 1..Len(windows) : p \in WindowPositions(windows[k])
        /\ \A k \in 2..Len(windows) : windows[k][1] <= windows[k - 1][2]
        /\ windows # << >>
        /\ SliceIndex(windows[Len(windows)][2], Len(text)) = Len(text)

\* C4: with chunk_overlap >= chunk_size a call on a non-empty text ends in a
\* configuration error, neither returning chunks nor looping; a call on the
\* empty text returns the empty sequence.
C4_OverlapNotBelowSizeIsError ==
    /\ (chunk_overlap >= chunk_size /\ text # << >> /\ cpc \in {"done", "diverged"})
          => cpc = "error"
    /\ (cpc = "done" /\ text = << >>) => chunks = << >>

(***************************************************************************)
(* get_embeddings_batch, one group of texts per step.                      *)
(***************************************************************************)
TextLists == UNION {[1..n -> TextPool] : n \in 0..MaxTexts}

EmbedInit ==
    /\ ChunkIdle
    /\ EmbedIdle
    /\ StoreIdle
    /\ index_validates = TRUE

\* vector_store.py:86-99
GetEmbeddingsBatchCall(texts, batch_size) ==
    /\ epc = "idle"
    /\ e_texts' = texts
    /\ e_batch_size' = batch_size
    /\ e_i' = 0
    /\ embeddings' = << >>
    /\ e_failed' = {}
    /\ epc' = "loop"
    /\ UNCHANGED otherThanEmbed

\* vector_store.py:101-109: the provider call of the group returns
EmbedGroupOk ==
    /\ epc = "loop"
    /\ e_i < Len(e_texts)
    /\ embeddings' = EmbedGroup(embeddings, Batch(e_texts, e_i, e_batch_size), TRUE)
    /\ e_i' = e_i + e_batch_size
    /\ UNCHANGED <<e_texts, e_batch_size, e_failed, epc>>
    /\ UNCHANGED otherThanEmbed

\* vector_store.py:101-113: the provider call of the group raises
EmbedGroupFail ==
    /\ epc = "loop"
    /\ e_i < Len(e_texts)
    /\ embeddings' = EmbedGroup(embeddings, Batch(e_texts, e_i, e_batch_size), FALSE)
    /\ e_failed' = e_failed \cup {e_i}
    /\ e_i' = e_i + e_batch_size
    /\ UNCHANGED <<e_texts, e_batch_size, epc>>
    /\ UNCHANGED otherThanEmbed

\* vector_store.py:115
GetEmbeddingsBatchReturn ==
    /\ epc = "loop"
    /\ e_i >= Len(e_texts)
    /\ epc' = "done"
    /\ UNCHANGED <<e_texts, e_batch_size, e_i, embeddings, e_failed>>
    /\ UNCHANGED otherThanEmbed

EmbedNext ==
    \/ \E texts \in TextLists, batch_size \in 1..MaxBatch :
          GetEmbeddingsBatchCall(texts, batch_size)
    \/ EmbedGroupOk
    \/ EmbedGroupFail
    \/ GetEmbeddingsBatchReturn

SpecEmbed == EmbedInit /\ [][EmbedNext]_vars

(***************************************************************************)
(* Claims about get_embeddings_batch.                                      *)
(***************************************************************************)
\* the loop index of the group that input position j (from 0) belongs to
GroupOf(j, batch_size) == (j \div batch_size) * batch_size

\* C5: get_embeddings_batch returns exactly one vector per input text, in
\* input order, whatever the input length, the batch size and the groups whose
\* provider call fails: position j of the result is the vector of text j, or
\* the empty vector.
C5_OneVectorPerText ==
    epc = "done" =>
        /\ Len(embeddings) = Len(e_texts)
        /\ \A j \in 1..Len(e_texts) : embeddings[j] \in {Embedding(e_texts[j]), Sentinel}

C5_Witness ==
    /\ epc = "done"
    /\ Len(e_texts) > e_batch_size
    /\ Len(e_texts) % e_batch_size # 0
    /\ e_failed # {}
    /\ \E j \in 1..Len(embeddings) : embeddings[j] # Sentinel

\* C6: a failing provider call fills exactly the slots of its own group with
\* the empty vector and raises nothing: at every point of the loop the slots of
\* the groups done so far hold the empty vector where the group failed and the
\* texts' vectors where it did not, so earlier groups stay as they were and
\* later groups are still embedded.
C6_FailureIsolatedToGroup ==
    /\ epc \in {"idle", "loop", "done"}
    /\ epc \in {"loop", "done"} =>
          /\ Len(embeddings) = Min(e_i, Len(e_texts))
          /\ \A j \in 1..Len(embeddings) :
                embeddings[j] = IF GroupOf(j - 1, e_batch_size) \in e_failed
                                THEN Sentinel ELSE Embedding(e_texts[j])

C6_Witness ==
    /\ epc = "done"
    /\ \E g1, g2, g3 \in GroupStarts(Len(e_texts), e_batch_size) :
          /\ g1 < g2 /\ g2 < g3
          /\ g1 \notin e_failed /\ g2 \in e_failed /\ g3 \notin e_failed
          /\ embeddings[g3 + 1] = Embedding(e_texts[g3 + 1])

(***************************************************************************)
(* VectorStore.add_documents and reset_collection.                         *)
(***************************************************************************)
\* vector_store.py:117, the default of batch_size
DefaultBatchSize == 100

\* the .docx files documents_dir can hold, in the order the directory lists them
FileOrder == << <<"a", ".docx">>, <<"b", ".docx">> >>
FileNames == {FileOrder[k] : k \in 1..Len(FileOrder)}

\* Path(file_name).stem
Stem(file_name) == SubSeq(file_name, 1, Len(file_name) - 1)

\* DocId with an ordinal that counts on from the items the collection holds
DocId_Counted(file_name, i) ==
    Stem(file_name) \o <<"_chunk_", i + Cardinality(DOMAIN collection)>>

\* chatbot.py:102: f"{Path(doc['file_name']).stem}_chunk_{i}"
DocId(file_name, i) == Stem(file_name) \o <<"_chunk_", i>>

\* chatbot.py:106-111 (file_path is documents_dir/file_name)
TextMetadata(file_name, i) == [file_name |-> file_name, type |-> "text", chunk_index |-> i]

\* chatbot.py:103-112
TextDocument(file_name, i, chunk) ==
    [id |-> DocId(file_name, i), text |-> chunk, metadata |-> TextMetadata(file_name, i)]

\* vector_store.py:151-156: collection.add of one write batch.  The index
\* library keeps an item that is already stored under an id and ignores the
\* new one; a build that validates embeddings raises on an empty one and adds
\* nothing of the batch, a build that does not stores the items as given.
CollectionAdd(coll, docs, embs) ==
    IF index_validates /\ \E k \in 1..Len(embs) : embs[k] = Sentinel
    THEN [collection |-> coll, raised |-> TRUE]
    ELSE LET new == {docs[k].id : k \in 1..Len(docs)} \ DOMAIN coll
             pos(id) == CHOOSE k \in 1..Len(docs) : docs[k].id = id
             item(k) == [text |-> docs[k].text, metadata |-> docs[k].metadata,
                         embedding |-> embs[k]]
         IN  [collection |-> [id \in DOMAIN coll \cup new |->
                                IF id \in DOMAIN coll THEN coll[id] ELSE item(pos(id))],
              raised |-> FALSE]

\* vector_store.py:144-160: the write loop from index i on; an exception of
\* collection.add ends the loop (line 159)
RECURSIVE WriteFrom(_, _, _, _, _)
WriteFrom(coll, documents, embs, i, batch_size) ==
    IF i >= Len(documents) THEN [collection |-> coll, completed |-> TRUE]
    ELSE LET r == CollectionAdd(coll, Batch(documents, i, batch_size),
                                Batch(embs, i, batch_size))
         IN  IF r.raised THEN [collection |-> r.collection, completed |-> FALSE]
             ELSE WriteFrom(r.collection, documents, embs, i + batch_size, batch_size)

\* AddDocuments that writes into a collection it has emptied first
AddDocuments_Rebuilds(coll, documents, batch_size, failed) ==
    IF documents = << >>
    THEN [collection |-> coll, embeddings |-> << >>, completed |-> FALSE]
    ELSE LET texts == [k \in 1..Len(documents) |-> documents[k].text]
             embs == GetEmbeddingsBatch(texts, batch_size, failed)
             w == WriteFrom(EmptyCollection, documents, embs, 0, batch_size)
         IN  [collection |-> w.collection, embeddings |-> embs, completed |-> w.completed]

\* vector_store.py:117-160: add_documents, where failed is the set of the loop
\* indices of get_embeddings_batch whose provider call raises
AddDocuments(coll, documents, batch_size, failed) ==
    IF documents = << >>
    THEN [collection |-> coll, embeddings |-> << >>, completed |-> FALSE]
    ELSE LET texts == [k \in 1..Len(documents) |-> documents[k].text]
             embs == GetEmbeddingsBatch(texts, batch_size, failed)
             w == WriteFrom(coll, documents, embs, 0, batch_size)
         IN  [collection |-> w.collection, embeddings |-> embs, completed |-> w.completed]

\* the documents a caller of the store passes: those index_documents builds
\* for a chunk, with any text
StoreDocuments ==
    {TextDocument(f, i, t) : f \in FileNames, i \in 0..(MaxChunks - 1), t \in TextPool}

\* lists of documents with pairwise different ids
DocumentLists ==
    {d \in UNION {[1..n -> StoreDocuments] : n \in 0..MaxDocs} :
        \A j, k \in 1..Len(d) : d[j].id = d[k].id => j = k}

StoreInit ==
    /\ ChunkIdle
    /\ EmbedIdle
    /\ StoreIdle
    /\ index_validates \in BOOLEAN

\* vector_store.py:117-160; run holds the statistics of an index_documents
\* call only while that call is the last write
AddDocumentsCall(documents, batch_size, failed) ==
    /\ LET r == AddDocuments(collection, documents, batch_size, failed)
       IN  /\ collection' = r.collection
           /\ last' = [op |-> "add", documents |-> documents,
                       embeddings |-> r.embeddings, completed |-> r.completed,
                       after_reset |-> (last.op = "reset" /\ reply = [op |-> "count", value |-> 0])]
    /\ reply' = NoReply
    /\ run' = NoRun
    /\ UNCHANGED <<index_validates, directory, ocr_processor>>
    /\ UNCHANGED otherThanStore

\* ResetOutcome with a reset that leaves the items in the new collection
ResetOutcome_KeepsItems(coll) == coll

\* vector_store.py:209-213: the collection is deleted and created anew
ResetOutcome(coll) == EmptyCollection

\* vector_store.py:206-216: the effect of reset_collection on the store
ResetStore ==
    /\ collection' = ResetOutcome(collection)
    /\ last' = [NoCall EXCEPT !.op = "reset"]
    /\ reply' = NoReply

ResetCollection ==
    /\ ResetStore
    /\ UNCHANGED <<index_validates, botVars>>
    /\ UNCHANGED otherThanStore

\* vector_store.py:199-204: collection.count()
CollectionCount(coll) == Cardinality(DOMAIN coll)

GetCollectionCount ==
    /\ reply' = [op |-> "count", value |-> CollectionCount(collection)]
    /\ UNCHANGED <<storeVars, botVars>>
    /\ UNCHANGED otherThanStore

StoreNext ==
    \/ \E documents \in DocumentLists, batch_size \in 1..MaxDocs :
         \E failed \in SUBSET GroupStarts(Len(documents), batch_size) :
            AddDocumentsCall(documents, batch_size, failed)
    \/ ResetCollection
    \/ GetCollectionCount

SpecStore == StoreInit /\ [][StoreNext]_vars

(***************************************************************************)
(* Claims about the collection.                                            *)
(***************************************************************************)
\* C7: after any sequence of add_documents and reset_collection calls, with any
\* pattern of embedding failures, no stored item has the empty vector as its
\* embedding.
C7_NoSentinelStored ==
    \A id \in DOMAIN collection : collection[id].embedding # Sentinel

\* C8: when add_documents returns, every item whose embedding succeeded is
\* stored in the collection, whichever other groups failed.
C8_EmbeddedItemsAreStored ==
    last.op = "add" =>
        \A j \in 1..Len(last.documents) :
            last.embeddings[j] # Sentinel => last.documents[j].id \in DOMAIN collection

\* C10: after an add_documents that ran to its end, the collection holds each
\* added id with the text and the metadata of that add, also when the id was
\* stored before.
C10_AddOverwritesInPlace ==
    (last.op = "add" /\ last.completed) =>
        \A j \in 1..Len(last.documents) :
            /\ last.documents[j].id \in DOMAIN collection
            /\ collection[last.documents[j].id].text = last.documents[j].text
            /\ collection[last.documents[j].id].metadata = last.documents[j].metadata

UuidPool == {"u1"}
OcrOutputs == {"", "o1"}

\* the chunks chunk_text cuts from the files of the directory
ChunkPool == {"t1"}

\* the lock file an editor keeps next to a.docx while the file is open
LockFile == <<"~$", "a", ".docx">>

\* documents_dir.glob('*.docx'), in the order the directory lists the files
DirectoryOrder == FileOrder \o <<LockFile>>
DirectoryFiles == {DirectoryOrder[k] : k \in 1..Len(DirectoryOrder)}

\* A file that is there.  For one that process_document can read: the chunks
\* of its text and the number of its images; for one on which process_document
\* raises: nothing.
FileContents ==
    {[present |-> TRUE, readable |-> TRUE, chunks |-> c, images |-> n] :
        c \in UNION {[1..m -> ChunkPool] : m \in 0..MaxChunks}, n \in 0..MaxImages}
    \cup {[present |-> TRUE, readable |-> FALSE, chunks |-> << >>, images |-> 0]}

\* what a file of the name can hold; the lock file, if it is there, is taken
\* to be one that python-docx could read
ContentsOf(file_name) ==
    IF file_name = LockFile
    THEN {NoFile, [present |-> TRUE, readable |-> TRUE, chunks |-> <<"t1">>, images |-> 0]}
    ELSE FileContents \cup {NoFile}

\* IsLockFile that takes no file for a lock file
IsLockFile_Never(file_name) == FALSE

\* document_processor.py:163: f.name.startswith('~$')
IsLockFile(file_name) == file_name[1] = "~$"

\* document_processor.py:159-177: the processed documents, in directory order;
\* a file on which process_document raises is left out (lines 173-175)
ProcessDocumentsBatch(dir) ==
    LET docx_files == SelectSeq(DirectoryOrder, LAMBDA f : dir[f].present /\ ~IsLockFile(f))
        processed == SelectSeq(docx_files, LAMBDA f : dir[f].readable)
    IN  [k \in 1..Len(processed) |->
            [file_name |-> processed[k], chunks |-> dir[processed[k]].chunks,
             images |-> dir[processed[k]].images]]

\* chatbot.py:98-112
RECURSIVE TextDocumentsFrom(_, _)
TextDocumentsFrom(processed_docs, k) ==
    IF k > Len(processed_docs) THEN << >>
    ELSE LET doc == processed_docs[k]
         IN  [i \in 1..Len(doc.chunks) |-> TextDocument(doc.file_name, i - 1, doc.chunks[i])]
             \o TextDocumentsFrom(processed_docs, k + 1)

TextDocuments(processed_docs) == TextDocumentsFrom(processed_docs, 1)

\* document_processor.py:60-76: images_dir/<doc_name>/<doc_name>_<n>.png
ImagePath(file_name, n) == [parent |-> Stem(file_name), stem |-> Stem(file_name) \o <<"_", n>>]

\* chatbot.py:122-124
RECURSIVE AllImagesFrom(_, _)
AllImagesFrom(processed_docs, k) ==
    IF k > Len(processed_docs) THEN << >>
    ELSE LET doc == processed_docs[k]
         IN  [n \in 1..doc.images |-> ImagePath(doc.file_name, n - 1)]
             \o AllImagesFrom(processed_docs, k + 1)

AllImages(processed_docs) == AllImagesFrom(processed_docs, 1)

\* chatbot.py:137-153: ocr_text[k] is the text read from image k, uuid[k] the
\* random part of its id
OcrDocuments(images, ocr_text, uuid) ==
    LET all == [k \in 1..Len(images) |->
                  [id |-> <<"ocr_", uuid[k], "_">> \o images[k].stem,
                   text |-> ocr_text[k],
                   metadata |-> [file_name |-> images[k].parent \o <<" (image)">>,
                                 image_path |-> images[k], type |-> "ocr"]]]
    IN  SelectSeq(all, LAMBDA d : d.text # "")

Ids(documents) == {documents[k].id : k \in 1..Len(documents)}

BotInit ==
    /\ ChunkIdle
    /\ EmbedIdle
    /\ StoreIdle
    /\ index_validates \in BOOLEAN

\* ErrorOutcome with a handler that takes back what the run has written
ErrorOutcome_RollsBack(before, written) == before

\* chatbot.py:173-177: the handler sets the status and leaves the store as
\* the stages before the exception have written it
ErrorOutcome(before, written) == written

\* chatbot.py:51-179.  tfailed and ofailed are the loop indices of
\* get_embeddings_batch whose provider call raises, for the text chunks and for
\* the OCR texts; ocr_init_ok tells whether OCRProcessor can be constructed.
IndexDocuments(enable_ocr, tfailed, ocr_init_ok, ocr_text, uuid, ofailed) ==
    LET processed_docs == ProcessDocumentsBatch(directory)
        text_documents == TextDocuments(processed_docs)
        t == IF text_documents # << >>
             THEN AddDocuments(collection, text_documents, DefaultBatchSize, tfailed)
             ELSE [collection |-> collection, embeddings |-> << >>, completed |-> FALSE]
        all_images == AllImages(processed_docs)
        ocr_documents == OcrDocuments(all_images, ocr_text, uuid)
        o == IF ocr_documents # << >>
             THEN AddDocuments(t.collection, ocr_documents, DefaultBatchSize, ofailed)
             ELSE [collection |-> t.collection, embeddings |-> << >>, completed |-> FALSE]
        again == /\ last.op = "index"
                 /\ run.status = "success"
                 /\ ~run.enable_ocr
                 /\ ~run.embed_failures
        stats == [NoRun EXCEPT !.enable_ocr = enable_ocr, !.again = again,
                               !.count_before = CollectionCount(collection)]
    IN  /\ last' = [NoCall EXCEPT !.op = "index"]
        /\ reply' = NoReply
        /\ IF processed_docs = << >>
           THEN \* lines 88-91
                /\ run' = [stats EXCEPT !.status = "no_documents"]
                /\ UNCHANGED <<collection, ocr_processor>>
           ELSE IF ~(enable_ocr /\ all_images # << >>)
           THEN \* lines 93-127 and 160-171
                /\ run' = [stats EXCEPT !.status = "success",
                                        !.total_docs = Len(processed_docs),
                                        !.total_chunks = Len(text_documents),
                                        !.total_images = Len(all_images),
                                        !.embed_failures = (tfailed # {})]
                /\ collection' = t.collection
                /\ UNCHANGED ocr_processor
           ELSE IF ocr_processor = "none" /\ ~ocr_init_ok
           THEN \* lines 132 and 173-177: OCRProcessor() raises
                /\ run' = [stats EXCEPT !.status = "error",
                                        !.total_docs = Len(processed_docs),
                                        !.total_chunks = Len(text_documents),
                                        !.total_images = Len(all_images),
                                        !.embed_failures = (tfailed # {}),
                                        !.ocr_invoked = TRUE]
                /\ collection' = ErrorOutcome(collection, t.collection)
                /\ UNCHANGED ocr_processor
           ELSE \* lines 130-159; the random part makes the OCR ids new ones
                /\ Ids(ocr_documents) \cap DOMAIN t.collection = {}
                /\ run' = [stats EXCEPT !.status = "success",
                                        !.total_docs = Len(processed_docs),
                                        !.total_chunks = Len(text_documents),
                                        !.total_images = Len(all_images),
                                        !.ocr_texts = Len(ocr_documents),
                                        !.embed_failures = (tfailed # {} \/ ofailed # {}),
                                        !.ocr_invoked = TRUE]
                /\ collection' = o.collection
                /\ ocr_processor' = "ready"
        /\ UNCHANGED <<index_validates, directory>>
        /\ UNCHANGED otherThanStore

\* the operator puts a file into documents_dir, changes one or removes one
EditDirectory(file_name, content) ==
    /\ content # directory[file_name]
    /\ directory' = [directory EXCEPT ![file_name] = content]
    /\ last' = [NoCall EXCEPT !.op = "edit"]
    /\ run' = NoRun
    /\ reply' = NoReply
    /\ UNCHANGED <<collection, index_validates, ocr_processor>>
    /\ UNCHANGED otherThanStore

\* the inputs of one index_documents run over the current directory
IndexRun ==
    LET processed_docs == ProcessDocumentsBatch(directory)
        n_text == Len(TextDocuments(processed_docs))
        n_img == Len(AllImages(processed_docs))
    IN  \E enable_ocr \in BOOLEAN, ocr_init_ok \in BOOLEAN :
        \E tfailed \in SUBSET GroupStarts(n_text, DefaultBatchSize) :
        \E ocr_text \in [1..n_img -> OcrOutputs], uuid \in [1..n_img -> UuidPool] :
        \E ofailed \in SUBSET GroupStarts(Len(SelectSeq(ocr_text, LAMBDA x : x # "")),
                                         DefaultBatchSize) :
            IndexDocuments(enable_ocr, tfailed, ocr_init_ok, ocr_text, uuid, ofailed)

Next ==
    \/ IndexRun
    \/ \E f \in DirectoryFiles : \E content \in ContentsOf(f) : EditDirectory(f, content)
    \/ ResetCollection

Spec == BotInit /\ [][Next]_vars

(***************************************************************************)
(* Claims about index_documents.                                           *)
(***************************************************************************)
TextItemIds(coll) == {id \in DOMAIN coll : coll[id].metadata.type = "text"}

\* C9: an index_documents run with OCR disabled and every embedding succeeding
\* that follows such a run over the same, unchanged directory leaves the set of
\* text-item ids and the item count as the first run left them.
C9_ReindexIsIdempotent ==
    [][(/\ last'.op = "index"
        /\ run'.again
        /\ run'.status = "success"
        /\ ~run'.enable_ocr
        /\ ~run'.embed_failures)
         => /\ TextItemIds(collection') = TextItemIds(collection)
            /\ Cardinality(DOMAIN collection') = Cardinality(DOMAIN collection)]_vars

C9_Witness ==
    /\ last.op = "index"
    /\ run.again
    /\ run.status = "success"
    /\ ~run.enable_ocr
    /\ ~run.embed_failures
    /\ run.total_chunks = 2
    /\ Cardinality(TextItemIds(collection)) >= 2

OcrItemIds(coll) == {id \in DOMAIN coll : coll[id].metadata.type = "ocr"}

\* no file of the directory is a document process_document returns: each is
\* absent, a '~$' lock file or one that fails to parse
NoDocumentToProcess(dir) ==
    \A f \in DOMAIN dir : ~dir[f].present \/ f[1] = "~$" \/ ~dir[f].readable

C17_ErrorKeepsWrittenItems ==
    [][(last'.op = "index" /\ run'.status = "error") =>
         /\ DOMAIN collection \subseteq DOMAIN collection'
         /\ CollectionCount(collection') >= run'.count_before
         /\ ~run'.embed_failures =>
               Ids(TextDocuments(ProcessDocumentsBatch(directory))) \subseteq DOMAIN collection']_vars

\* the run that failed wrote the two text items that are stored
C17_Witness ==
    /\ last.op = "index"
    /\ run.status = "error"
    /\ run.count_before = 0
    /\ run.total_chunks = 2
    /\ Cardinality(TextItemIds(collection)) = 2

\* C18: after an index_documents run with status 'success', total_chunks is
\* the number of the run's text items that are stored and ocr_texts the number
\* of its OCR items that are stored.
C18_CountsAreStoredItems ==
    (last.op = "index" /\ run.status = "success") =>
        /\ run.total_chunks =
              Cardinality(Ids(TextDocuments(ProcessDocumentsBatch(directory))) \cap DOMAIN collection)
        /\ run.count_before = 0 => run.ocr_texts = Cardinality(OcrItemIds(collection))


(***************************************************************************)
(* Retrieval: VectorStore.search and RAGEngine.retrieve_relevant_documents.*)
(* Distances and scores are counted in units of 1/10000.                   *)
(***************************************************************************)
MaxTopK == 3

\* rag_engine.py:49, the 1 of `1 - distance`
One == 10000

\* the query texts
QueryPool == {"q1"}

\* the distances the index reports, between 0 and 2 (cosine)
DistancePool == {2496, 2504}

\* vector_store.py:76-84: get_embedding; ok tells whether the provider call
\* returned
GetEmbedding(t, ok) == IF ok THEN Embedding(t) ELSE Sentinel

\* vector_store.py:182 and 197
EmptyResults == [documents |-> << >>, metadatas |-> << >>, distances |-> << >>]

\* collection.query for one query embedding: the index library returns the
\* n_results nearest items, or all items if there are fewer, nearest first.
\* A hit is the id of a stored item with its distance from the query; the
\* model leaves open which items are near.
IndexHits(coll, n_results) ==
    {h \in [1..Min(n_results, Cardinality(DOMAIN coll)) -> [id : DOMAIN coll, distance : DistancePool]] :
        /\ \A j, k \in 1..Len(h) : h[j].id = h[k].id => j = k
        /\ \A k \in 2..Len(h) : h[k - 1].distance <= h[k].distance}

\* what collection.query returns for the hits: one list per query embedding
CollectionQuery(coll, hits) ==
    [documents |-> << [k \in 1..Len(hits) |-> coll[hits[k].id].text] >>,
     metadatas |-> << [k \in 1..Len(hits) |-> coll[hits[k].id].metadata] >>,
     distances |-> << [k \in 1..Len(hits) |-> hits[k].distance] >>]

\* Search that queries the index also with the empty query embedding
Search_IgnoresEmbedFailure(coll, query_embedding, hits, query_ok) ==
    IF ~query_ok THEN EmptyResults
    ELSE LET results == CollectionQuery(coll, hits)
         IN  [documents |-> results.documents[1],
              metadatas |-> results.metadatas[1],
              distances |-> results.distances[1]]

\* vector_store.py:177-197: search, where hits are the hits of the index for
\* the query and query_ok tells whether collection.query returns
Search(coll, query_embedding, hits, query_ok) ==
    IF query_embedding = Sentinel THEN EmptyResults
    ELSE IF ~query_ok THEN EmptyResults
    ELSE LET results == CollectionQuery(coll, hits)
         IN  [documents |-> IF results.documents # << >> THEN results.documents[1] ELSE << >>,
              metadatas |-> IF results.metadatas # << >> THEN results.metadatas[1] ELSE << >>,
              distances |-> IF results.distances # << >> THEN results.distances[1] ELSE << >>]

\* FormatResults with the distance as the score
FormatResults_ScoreIsDistance(results) ==
    [i \in 1..Len(results.documents) |->
        [text |-> results.documents[i],
         metadata |-> results.metadatas[i],
         score |-> results.distances[i]]]

\* rag_engine.py:44-52
FormatResults(results) ==
    [i \in 1..Len(results.documents) |->
        [text |-> results.documents[i],
         metadata |-> results.metadatas[i],
         score |-> One - results.distances[i]]]

\* rag_engine.py:29-52: retrieve_relevant_documents
RetrieveRelevantDocuments(coll, query, embed_ok, hits, query_ok) ==
    FormatResults(Search(coll, GetEmbedding(query, embed_ok), hits, query_ok))


(***************************************************************************)
(* Answering: RAGEngine._build_context, generate_answer and query, and     *)
(* RAGChatbot.chat.                                                        *)
(***************************************************************************)
\* rag_engine.py:128, the default of max_length
DefaultMaxLength == 4000

\* rag_engine.py:197, retrieved_docs[:3]
ReturnedDocs == 3

\* the number of characters of the strings the model names: a short and a
\* long chunk, a long text read from an image, and the parts of file names
\* (" (image)" stands for the six characters chatbot.py:149 appends)
StrLength(str) ==
    CASE str = "t1" -> 20
      [] str = "t2" -> 500
      [] str = "o1" -> 3900
      [] str = ".docx" -> 5
      [] str = " (image)" -> 6
      [] str = "~$" -> 2
      [] str = "" -> 0
      [] OTHER -> 1

\* len() of a name made of several strings
RECURSIVE NameLength(_)
NameLength(name) == IF name = << >> THEN 0 ELSE StrLength(Head(name)) + NameLength(Tail(name))

\* len(str(n))
Digits(n) == IF n < 10 THEN 1 ELSE 2

\* rag_engine.py:143-151: the block of document i (from 0); its text is the
\* document's text as it is
ContextItem(i, doc) ==
    [number |-> i + 1, file_name |-> doc.metadata.file_name,
     ocr |-> (doc.metadata.type = "ocr"), text |-> doc.text]

\* len(context_item): "[" and two characters and " ", the number, ": ", the
\* name, for an OCR item " (" and six characters and ")", then "]\n", the
\* text and "\n"
ContextItemLength(item) ==
    4 + Digits(item.number) + 2 + NameLength(item.file_name)
      + (IF item.ocr THEN 9 ELSE 0) + 2 + StrLength(item.text) + 1

\* BuildFrom with `continue` in the place of `break`
RECURSIVE BuildFrom_SkipsBlock(_, _, _, _, _)
BuildFrom_SkipsBlock(documents, i, context_parts, current_length, max_length) ==
    IF i >= Len(documents) THEN context_parts
    ELSE LET context_item == ContextItem(i, documents[i + 1])
         IN  IF current_length + ContextItemLength(context_item) > max_length
             THEN BuildFrom_SkipsBlock(documents, i + 1, context_parts, current_length, max_length)
             ELSE BuildFrom_SkipsBlock(documents, i + 1, Append(context_parts, context_item),
                                       current_length + ContextItemLength(context_item), max_length)

\* rag_engine.py:142-158: the loop from document i on
RECURSIVE BuildFrom(_, _, _, _, _)
BuildFrom(documents, i, context_parts, current_length, max_length) ==
    IF i >= Len(documents) THEN context_parts
    ELSE LET context_item == ContextItem(i, documents[i + 1])
         IN  IF current_length + ContextItemLength(context_item) > max_length
             THEN context_parts
             ELSE BuildFrom(documents, i + 1, Append(context_parts, context_item),
                            current_length + ContextItemLength(context_item), max_length)

\* rag_engine.py:128-160: the blocks of the context; the string returned is
\* the blocks joined by "\n"
BuildContext(documents, max_length) == BuildFrom(documents, 0, << >>, 0, max_length)

\* round(score, 3): to the nearest multiple of 1/1000, a tie to the even one
Round3(score) ==
    LET q == score \div 10
        r == score % 10
    IN  IF r < 5 THEN q * 10
        ELSE IF r > 5 THEN (q + 1) * 10
        ELSE IF q % 2 = 0 THEN q * 10 ELSE (q + 1) * 10

\* rag_engine.py:108-112
SourceInfo(doc) ==
    [file_name |-> doc.metadata.file_name, type |-> doc.metadata.type, score |-> Round3(doc.score)]

\* rag_engine.py:106-114: the sources of documents k.. appended to sources
RECURSIVE SourcesFrom(_, _, _)
SourcesFrom(sources, documents, k) ==
    IF k > Len(documents) THEN sources
    ELSE LET source_info == SourceInfo(documents[k])
         IN  SourcesFrom(IF \E j \in 1..Len(sources) : sources[j] = source_info
                         THEN sources ELSE Append(sources, source_info),
                         documents, k + 1)

\* rag_engine.py:54-126: generate_answer; gen_ok tells whether the call of
\* the generation provider returned
GenerateAnswer(context_documents, gen_ok) ==
    LET context == BuildContext(context_documents, DefaultMaxLength)
    IN  IF gen_ok
        THEN [answer |-> "generated", sources |-> SourcesFrom(<< >>, context_documents, 1),
              context |-> context]
        ELSE [answer |-> "generation_error", sources |-> << >>, context |-> context]

\* RagQuery that goes on to generate_answer also without retrieved documents
RagQuery_AlwaysGenerates(retrieved_docs, gen_ok) ==
    LET result == GenerateAnswer(retrieved_docs, gen_ok)
    IN  [answer |-> result.answer, sources |-> result.sources,
         retrieved_docs |-> Slice(retrieved_docs, 0, ReturnedDocs),
         context |-> result.context, calls |-> <<"retrieve", "generate">>]

\* rag_engine.py:179-198: query from the retrieved documents on; calls lists
\* the stages that were run
RagQuery(retrieved_docs, gen_ok) ==
    IF retrieved_docs = << >>
    THEN [answer |-> "no_relevant_documents", sources |-> << >>, retrieved_docs |-> << >>,
          context |-> << >>, calls |-> <<"retrieve">>]
    ELSE LET result == GenerateAnswer(retrieved_docs, gen_ok)
         IN  [answer |-> result.answer, sources |-> result.sources,
              retrieved_docs |-> Slice(retrieved_docs, 0, ReturnedDocs),
              context |-> result.context, calls |-> <<"retrieve", "generate">>]

\* chatbot.py:192-202: chat, from the count of the collection
ChatAnswer(count, retrieved_docs, gen_ok) ==
    IF count = 0
    THEN [answer |-> "nothing_indexed", sources |-> << >>, retrieved_docs |-> << >>,
          context |-> << >>, calls |-> << >>]
    ELSE RagQuery(retrieved_docs, gen_ok)


(***************************************************************************)
(* A RAGEngine and a RAGChatbot over a store that was constructed on a     *)
(* collection filled earlier (vector_store.py:52 loads it).                *)
(***************************************************************************)
MaxStored == 3

\* the documents the collection was filled with: the first chunk of each
\* file, short or long, and the text read from an image of the first file
QueryDocuments ==
    {TextDocument(f, 0, t) : f \in FileNames, t \in TextPool} \cup
    {OcrDocuments(<<ImagePath(FileOrder[1], 0)>>, <<"o1">>, <<u>>)[1] : u \in UuidPool}

QueryDocumentLists ==
    {d \in UNION {[1..n -> QueryDocuments] : n \in 0..MaxStored} :
        \A j, k \in 1..Len(d) : d[j].id = d[k].id => j = k}

QueryInit ==
    /\ ChunkIdle
    /\ EmbedIdle
    /\ index_validates \in BOOLEAN
    /\ \E d \in QueryDocumentLists :
       \E failed \in SUBSET GroupStarts(Len(d), DefaultBatchSize) :
          collection = AddDocuments(EmptyCollection, d, DefaultBatchSize, failed).collection
    /\ last = NoCall
    /\ directory = [f \in DirectoryFiles |-> NoFile]
    /\ ocr_processor = "none"
    /\ run = NoRun
    /\ reply = NoReply
    /\ confirm_reset = [s \in Sessions |-> FALSE]
    /\ reset_clicks = [s \in Sessions |-> 0]
    /\ reset_calls = [s \in Sessions |-> 0]

\* the hits the index has for the query of one retrieval; it has none to
\* report when its query raises
HitsOf(top_k, query_ok) ==
    IF query_ok THEN IndexHits(collection, top_k) ELSE {<< >>}

\* rag_engine.py:29-52
RetrieveCall(query, top_k, embed_ok, query_ok, hits) ==
    /\ reply = NoReply
    /\ reply' = [op |-> "retrieve", query |-> query, top_k |-> top_k,
                 embed_ok |-> embed_ok, query_ok |-> query_ok, hits |-> hits,
                 retrieved |-> RetrieveRelevantDocuments(collection, query, embed_ok, hits, query_ok)]
    /\ UNCHANGED <<storeVars, botVars>>
    /\ UNCHANGED otherThanStore

\* rag_engine.py:162-198
QueryCall(query, top_k, embed_ok, query_ok, hits, gen_ok) ==
    /\ reply = NoReply
    /\ LET retrieved_docs == RetrieveRelevantDocuments(collection, query, embed_ok, hits, query_ok)
       IN  reply' = [op |-> "query", query |-> query, top_k |-> top_k,
                     embed_ok |-> embed_ok, query_ok |-> query_ok, hits |-> hits,
                     retrieved |-> retrieved_docs, gen_ok |-> gen_ok,
                     result |-> RagQuery(retrieved_docs, gen_ok)]
    /\ UNCHANGED <<storeVars, botVars>>
    /\ UNCHANGED otherThanStore

\* chatbot.py:181-202
ChatCall(query, top_k, embed_ok, query_ok, hits, gen_ok) ==
    /\ reply = NoReply
    /\ LET retrieved_docs == RetrieveRelevantDocuments(collection, query, embed_ok, hits, query_ok)
           count == CollectionCount(collection)
       IN  reply' = [op |-> "chat", query |-> query, top_k |-> top_k,
                     embed_ok |-> embed_ok, query_ok |-> query_ok, hits |-> hits,
                     retrieved |-> IF count = 0 THEN << >> ELSE retrieved_docs,
                     gen_ok |-> gen_ok, count |-> count,
                     result |-> ChatAnswer(count, retrieved_docs, gen_ok)]
    /\ UNCHANGED <<storeVars, botVars>>
    /\ UNCHANGED otherThanStore

\* the caller has taken the result of its call; the calls of the engine are
\* made one after the other (spec 5: single-threaded, synchronous)
TakeReply ==
    /\ reply # NoReply
    /\ reply' = NoReply
    /\ UNCHANGED <<storeVars, botVars>>
    /\ UNCHANGED otherThanStore

Retrieve ==
    \E query \in QueryPool, top_k \in 1..MaxTopK, embed_ok \in BOOLEAN, query_ok \in BOOLEAN :
    \E hits \in HitsOf(top_k, query_ok) :
        RetrieveCall(query, top_k, embed_ok, query_ok, hits)

RagEngineQuery ==
    \E query \in QueryPool, top_k \in 1..MaxTopK, embed_ok \in BOOLEAN, query_ok \in BOOLEAN :
    \E hits \in HitsOf(top_k, query_ok) :
    \E gen_ok \in (IF hits = << >> \/ ~embed_ok THEN {TRUE} ELSE BOOLEAN) :
        QueryCall(query, top_k, embed_ok, query_ok, hits, gen_ok)

Chat ==
    \E query \in QueryPool, top_k \in 1..MaxTopK, embed_ok \in BOOLEAN, query_ok \in BOOLEAN :
    \E hits \in HitsOf(top_k, query_ok) :
    \E gen_ok \in (IF hits = << >> \/ ~embed_ok THEN {TRUE} ELSE BOOLEAN) :
        ChatCall(query, top_k, embed_ok, query_ok, hits, gen_ok)

QueryNext ==
    \/ Retrieve
    \/ RagEngineQuery
    \/ Chat
    \/ TakeReply

SpecQuery == QueryInit /\ [][QueryNext]_vars

(***************************************************************************)
(* Claims about retrieval and answering.                                   *)
(***************************************************************************)
\* C11: retrieve_relevant_documents returns the empty sequence when the
\* collection is empty, when the query text cannot be embedded and when the
\* query of the index fails.
C11_RetrieveDegradesToEmpty ==
    (/\ reply.op = "retrieve"
     /\ \/ collection = EmptyCollection
        \/ ~reply.embed_ok
        \/ ~reply.query_ok)
        => reply.retrieved = << >>

C11_Witness ==
    /\ reply.op = "retrieve"
    /\ collection # EmptyCollection
    /\ ~reply.embed_ok
    /\ reply.query_ok
    /\ reply.hits # << >>
    /\ reply.retrieved = << >>

\* C12: retrieve_relevant_documents returns one result per hit of the index
\* query, in the order of the hits, at most top_k of them, each with the text
\* and the metadata of the hit's item and the score 1 - distance; the scores
\* do not increase along the sequence.
C12_RetrieveMapsHitsInOrder ==
    (reply.op = "retrieve" /\ reply.embed_ok /\ reply.query_ok) =>
        /\ Len(reply.retrieved) = Len(reply.hits)
        /\ Len(reply.retrieved) <= reply.top_k
        /\ \A k \in 1..Len(reply.hits) :
              /\ reply.retrieved[k].text = collection[reply.hits[k].id].text
              /\ reply.retrieved[k].metadata = collection[reply.hits[k].id].metadata
              /\ reply.retrieved[k].score + reply.hits[k].distance = One
        /\ \A k \in 2..Len(reply.retrieved) :
              reply.retrieved[k].score <= reply.retrieved[k - 1].score

C12_Witness ==
    /\ reply.op = "retrieve"
    /\ reply.top_k = 2
    /\ Cardinality(DOMAIN collection) = 3
    /\ Len(reply.retrieved) = 2
    /\ reply.retrieved[2].score < reply.retrieved[1].score
    /\ reply.retrieved[1].metadata.type = "ocr"


\* whether the call that reply is the result of ran the stage
Ran(stage) == \E j \in 1..Len(reply.result.calls) : reply.result.calls[j] = stage

\* the sum of the lengths of the blocks of the first n documents
RECURSIVE BlocksLength(_, _)
BlocksLength(docs, n) ==
    IF n = 0 THEN 0
    ELSE BlocksLength(docs, n - 1) + ContextItemLength(ContextItem(n - 1, docs[n]))

\* C14: the context holds the blocks of a prefix of the ranked results, each
\* block whole: the blocks are taken in rank order while the sum of their
\* lengths is at most max_length, and the first block that would exceed it is
\* left out with every block after it.
C14_ContextIsLongestFittingPrefix ==
    (reply.op \in {"query", "chat"} /\ Ran("generate")) =>
        LET docs == reply.retrieved
            parts == reply.result.context
            n == Len(parts)
        IN  /\ n <= Len(docs)
            /\ \A k \in 1..n :
                  /\ parts[k].number = k
                  /\ parts[k].text = docs[k].text
                  /\ parts[k].file_name = docs[k].metadata.file_name
            /\ BlocksLength(docs, n) <= DefaultMaxLength
            /\ n < Len(docs) => BlocksLength(docs, n + 1) > DefaultMaxLength

\* a block is left out, and so is a later one that would have fitted
C14_Witness ==
    /\ reply.op = "query"
    /\ Ran("generate")
    /\ Len(reply.retrieved) = 3
    /\ Len(reply.result.context) = 1
    /\ BlocksLength(reply.retrieved, 1)
         + ContextItemLength(ContextItem(2, reply.retrieved[3])) <= DefaultMaxLength

\* C15: every source returned with a generated answer is the source of a
\* result whose block is in the context.
C15_SourcesOnlyOfIncludedBlocks ==
    (reply.op \in {"query", "chat"} /\ Ran("generate")) =>
        \A j \in 1..Len(reply.result.sources) :
            \E k \in 1..Len(reply.result.context) :
                reply.result.sources[j] = SourceInfo(reply.retrieved[k])

\* C19: when retrieval returns nothing, query answers that no relevant
\* document was found, with no sources and without calling the generation
\* provider; chat on an empty collection answers that nothing is indexed
\* without calling retrieval or generation.
C19_EmptyRetrievalIsAnsweredWithoutGeneration ==
    /\ (/\ reply.op \in {"query", "chat"}
        /\ reply.op = "chat" => collection # EmptyCollection
        /\ (~reply.embed_ok \/ ~reply.query_ok \/ reply.hits = << >>))
          => /\ reply.result.answer = "no_relevant_documents"
             /\ reply.result.sources = << >>
             /\ Ran("retrieve")
             /\ ~Ran("generate")
    /\ (reply.op = "chat" /\ collection = EmptyCollection)
          => /\ reply.result.answer = "nothing_indexed"
             /\ reply.result.sources = << >>
             /\ reply.result.calls = << >>

C19_Witness ==
    /\ reply.op = "chat"
    /\ collection # EmptyCollection
    /\ ~reply.embed_ok
    /\ reply.hits # << >>
    /\ reply.result.answer = "no_relevant_documents"
    /\ ~Ran("generate")


(***************************************************************************)
(* The sidebar of the app: one chatbot (st.cache_resource) that the browser*)
(* sessions share, and a confirm_reset flag in each session's state.       *)
(***************************************************************************)
MaxClicks == 4

\* FlagAfterReset with a flag that stays as it is when the reset is done
FlagAfterReset_Kept(flag) == flag

\* app.py:129: st.session_state['confirm_reset'] = False
FlagAfterReset(flag) == FALSE

\* app.py:125-133: a click of the reset button in session s
ClickReset(s) ==
    /\ reset_clicks[s] < MaxClicks
    /\ reset_clicks' = [reset_clicks EXCEPT ![s] = @ + 1]
    /\ IF confirm_reset[s]
       THEN \* lines 127-130; chatbot.py:216-218 calls reset_collection
            /\ ResetStore
            /\ reset_calls' = [reset_calls EXCEPT ![s] = @ + 1]
            /\ confirm_reset' = [confirm_reset EXCEPT ![s] = FlagAfterReset(@)]
       ELSE \* lines 132-133
            /\ confirm_reset' = [confirm_reset EXCEPT ![s] = TRUE]
            /\ UNCHANGED <<collection, last, reply, reset_calls>>
    /\ UNCHANGED <<index_validates, botVars, chunkVars, embedVars>>

\* the app is started on a documents_dir that holds a.docx, with one chunk of
\* text and one image
AppInit ==
    /\ ChunkIdle
    /\ EmbedIdle
    /\ index_validates \in BOOLEAN
    /\ collection = EmptyCollection
    /\ last = NoCall
    /\ directory = [f \in DirectoryFiles |->
                      IF f = FileOrder[1]
                      THEN [present |-> TRUE, readable |-> TRUE, chunks |-> <<"t1">>, images |-> 1]
                      ELSE NoFile]
    /\ ocr_processor = "none"
    /\ run = NoRun
    /\ reply = NoReply
    /\ confirm_reset = [s \in Sessions |-> FALSE]
    /\ reset_clicks = [s \in Sessions |-> 0]
    /\ reset_calls = [s \in Sessions |-> 0]

\* app.py:103-105 (the index button) and 125-133 (the reset button)
AppNext ==
    \/ IndexRun
    \/ \E s \in Sessions : ClickReset(s)

SpecApp == AppInit /\ [][AppNext]_vars

\* C20: reset_database is called only by a click of the reset button that
\* finds the session's confirm_reset flag set, and that click clears the flag;
\* the flag is set only by an earlier click of the button in the session that
\* no reset has used up, so each reset has its own confirming click before it;
\* a click that finds the flag unset leaves the collection as it is.
C20_ResetNeedsConfirmingClick ==
    /\ [](\A s \in Sessions :
            /\ 2 * reset_calls[s] <= reset_clicks[s]
            /\ confirm_reset[s] => reset_clicks[s] = 2 * reset_calls[s] + 1)
    /\ [][\A s \in Sessions :
            /\ reset_calls'[s] # reset_calls[s] =>
                  /\ reset_calls'[s] = reset_calls[s] + 1
                  /\ reset_clicks'[s] = reset_clicks[s] + 1
                  /\ confirm_reset[s]
                  /\ ~confirm_reset'[s]
            /\ (reset_clicks'[s] # reset_clicks[s] /\ ~confirm_reset[s]) =>
                  /\ collection' = collection
                  /\ reset_calls' = reset_calls
            /\ (collection # EmptyCollection /\ collection' = EmptyCollection) =>
                  \E t \in Sessions : reset_calls'[t] # reset_calls[t]]_vars

\* a session has reset a filled collection twice, and the other session's
\* flag is set
C20_Witness ==
    /\ \E s, t \in Sessions :
          /\ s # t
          /\ reset_calls[s] = 2
          /\ reset_clicks[s] = 4
          /\ confirm_reset[t]
    /\ last.op = "reset"
    /\ run.status = "success"


(***************************************************************************)
(* Every operation that reads or writes the collection, on one chatbot.    *)
(***************************************************************************)
\* vector_store.py:162-197
SearchCall(query, n_results, embed_ok, query_ok, hits) ==
    /\ reply = NoReply
    /\ reply' = [op |-> "search", query |-> query, top_k |-> n_results,
                 embed_ok |-> embed_ok, query_ok |-> query_ok, hits |-> hits,
                 results |-> Search(collection, GetEmbedding(query, embed_ok), hits, query_ok)]
    /\ UNCHANGED <<storeVars, botVars>>
    /\ UNCHANGED otherThanStore

\* chatbot.py:204-214: get_stats; glob('*.docx') counts every file of the
\* directory, lock files too
GetStats ==
    /\ reply' = [op |-> "stats",
                 document_count |-> Cardinality({f \in DOMAIN directory : directory[f].present}),
                 vector_count |-> CollectionCount(collection)]
    /\ UNCHANGED <<storeVars, botVars>>
    /\ UNCHANGED otherThanStore

\* the size of the answer the read-only calls ask the index for
AllTopK == 1

\* the lists add_documents is called with: one text, any files
AllDocumentLists ==
    {d \in DocumentLists : \A k \in 1..Len(d) : d[k].text = "t1"}

\* the index is not asked when the query has no embedding
AllHits(embed_ok, query_ok) ==
    IF embed_ok THEN HitsOf(AllTopK, query_ok) ELSE {<< >>}

AllAdd ==
    \E documents \in AllDocumentLists, batch_size \in 1..MaxDocs :
    \E failed \in SUBSET GroupStarts(Len(documents), batch_size) :
        AddDocumentsCall(documents, batch_size, failed)

AllSearch ==
    \E query \in QueryPool, embed_ok \in BOOLEAN, query_ok \in BOOLEAN :
    \E hits \in AllHits(embed_ok, query_ok) :
        SearchCall(query, AllTopK, embed_ok, query_ok, hits)

AllRetrieve ==
    \E query \in QueryPool, embed_ok \in BOOLEAN, query_ok \in BOOLEAN :
    \E hits \in AllHits(embed_ok, query_ok) :
        RetrieveCall(query, AllTopK, embed_ok, query_ok, hits)

AllChat ==
    \E query \in QueryPool, embed_ok \in BOOLEAN, query_ok \in BOOLEAN :
    \E hits \in AllHits(embed_ok, query_ok) :
    \E gen_ok \in (IF hits = << >> THEN {TRUE} ELSE BOOLEAN) :
        ChatCall(query, AllTopK, embed_ok, query_ok, hits, gen_ok)

AllNext ==
    \/ AllAdd
    \/ IndexRun
    \/ ResetCollection
    \/ GetCollectionCount
    \/ GetStats
    \/ AllSearch
    \/ AllRetrieve
    \/ AllChat
    \/ TakeReply

SpecAll == AppInit /\ [][AllNext]_vars

\* C21: the stored items become fewer only by reset_collection.  A call of
\* search, retrieve_relevant_documents, chat, get_collection_count or
\* get_stats leaves the collection as it is, and after a call of add_documents
\* or index_documents, whatever its outcome, every item that was stored before
\* the call is still stored.
C21_OnlyResetRemovesItems ==
    [][/\ (reply' # reply /\ reply'.op \in {"search", "retrieve", "chat", "count", "stats"})
            => collection' = collection
       /\ last'.op # "reset"
            => DOMAIN collection \subseteq DOMAIN collection']_vars

\* an add_documents that did not run to its end, on a collection that holds
\* an item the call was not given
C21_Witness ==
    /\ last.op = "add"
    /\ last.documents # << >>
    /\ ~last.completed
    /\ \E id \in DOMAIN collection : id \notin Ids(last.documents)

=============================================================================
